---- MODULE Spec2Model ----
(***************************************************************************)
(* State-machine models of five of the example programs of the repository: *)
(*   item20.cxx  std::shared_ptr / std::weak_ptr, fastLoadWidget           *)
(*   item23.cxx  std::move, std::forward, logAndProcess                    *)
(*   item36.cxx  std::async launch policies, reallyAsync                   *)
(*   item37.cxx  ThreadRAII, doWork                                        *)
(*   item39.cxx  condvar + flag, std::promise<void>, detectTask/reactTask  *)
(* The programs are independent executables, so each has its own           *)
(* specification over its own variables; the other programs' variables     *)
(* stay at their initial values.                                           *)
(***************************************************************************)
EXTENDS Integers, Sequences, FiniteSets

\* ---------------------------------------------------------------- bounds
\* control blocks that may be allocated in one run of item20
MaxObjs == 4
\* distinct WidgetID values passed to fastLoadWidget
MaxIds == 2
\* shared_ptrs that callers of fastLoadWidget keep at the same time
MaxHeld == 2
\* calls of fastLoadWidget in one run
MaxCalls == 4
\* doWork's maxVal (tenMillion by default)
MaxVal == 2
\* spurious wakeups that are told apart (later ones are not counted)
MaxSpurious == 3
\* calls of detectVoid, detectSuspend and detectMuitiple in one run
MaxDetect == 3
\* calls of logAndProcess by callers other than main in one run
MaxLog == 3

\* the null pointer (nullptr, an empty shared_ptr / weak_ptr)
Null == 0

Obj == 1..MaxObjs
WidgetID == 1..MaxIds
Slot == 1..MaxHeld

VARIABLES
  \* ---- item20.cxx
  rc,        \* control block: strong reference count of each object
  alive,     \* objects whose Widget is constructed and not yet destroyed
  nextObj,   \* next control block make_shared will allocate
  objFor,    \* the WidgetID loadWidget built each object for (Null: main's)
  pc20,      \* main's position
  spw, wpw, spw1, spw2,   \* main's locals
  exc20,     \* exception in flight in main
  out20,     \* lines main printed to std::cout
  ret20,     \* main's return value (-1 while main runs)
  cache,     \* fastLoadWidget's static map: WidgetID -> weak_ptr
  held,      \* shared_ptrs returned by fastLoadWidget that callers still hold
  nLoad,     \* calls of loadWidget so far
  nFast,     \* calls of fastLoadWidget so far
  lastId, lastPtr,  \* argument and result of the latest fastLoadWidget call
  \* ---- item36.cxx
  task,      \* shared state of each future: launch policy chosen, progress of f,
             \* and the thread f runs on
  asked,     \* whether get or wait has been called on each future
  pc36,      \* main's position
  st36,      \* the future_status main's latest wait_for returned
  ret36,     \* main's return value (-1 while main runs)
  cpc36,     \* position of a caller of reallyAsync(f) / std::async(f)
  ccall36,   \* which of the two the caller used
  cst36,     \* the future_status the caller's latest wait_for returned
  \* ---- item37.cxx
  pc37,      \* position of the function that owns a ThreadRAII (doWork)
  action,    \* ThreadRAII::action
  joinable,  \* ThreadRAII::t.joinable()
  detached,  \* whether t's thread of execution was detached
  tfun,      \* the thread function: "none", "running" or "finished"
  i37,       \* the thread function's loop variable i
  filter,    \* the values for which doWork's filter returns true
  goodVals,  \* doWork's local vector
  ret37,     \* what doWork returned: "none", "true" or "false"
  \* ---- item39.cxx: main, detectFlag, reactFlag
  pc39,      \* main's position
  pc3,       \* position of thread th3 (detectFlag)
  pc4,       \* position of thread th4 (reactFlag)
  m,         \* std::mutex m: "free" or the thread that holds it
  flag,      \* bool flag
  cvWaiters, \* the threads blocked in cv.wait
  spurious,  \* spurious wakeups of th4 so far, counted up to MaxSpurious
  out39,     \* lines printed to std::cout
  ret39,     \* main's return value (-1 while main runs)
  \* ---- item39.cxx: the promise p and the functions that use it
  pReady,     \* p's shared state holds the value: the event is signalled
  pRetrieved, \* p.get_future() has been called
  nSignals,   \* how many times an event was signalled through p
  nSet,       \* calls of p.set_value() so far
  err39,      \* the latest std::future_error thrown ("none" if none)
  terminated, \* std::terminate was called
  dpc,        \* position of the thread that calls the detect functions
  unwinding,  \* an exception is leaving detectSuspend
  nCalls,     \* detect functions called so far
  tpc,        \* positions of the reacting threads a detect function started
  \* ---- item23.cxx
  pc23,      \* main's position
  s23,       \* main's std::string s
  w23,       \* main's Widget w: the value of w.s ("unset" before construction)
  out23,     \* lines printed to std::cout by main
  ret23,     \* main's return value (-1 while main runs)
  calls23,   \* calls of logAndProcess made by other callers: the argument
             \* expression and the line process printed, in order
  \* ---- item39.cxx: detectTask and reactTask (they share cv, m and
  \*      std::cout, that is cvWaiters, m and out39, with the code above)
  pcT,       \* position of the thread that starts and joins th1 and th2
  pc1,       \* position of thread th1 (detectTask)
  pc2,       \* position of thread th2 (reactTask)
  i39,       \* int i
  lastWake,  \* what ended th2's latest wait: "none", "notify" or "spurious"
  notifiedEarly  \* detectTask called cv.notify_one() before reactTask had
                 \* begun to wait

vars20 == <<rc, alive, nextObj, objFor, pc20, spw, wpw, spw1, spw2, exc20,
            out20, ret20, cache, held, nLoad, nFast, lastId, lastPtr>>

vars36 == <<task, asked, pc36, st36, ret36, cpc36, ccall36, cst36>>

vars37 == <<pc37, action, joinable, detached, tfun, i37, filter, goodVals, ret37>>

vars39 == <<pc39, pc3, pc4, m, flag, cvWaiters, spurious, out39, ret39>>

vars39p == <<pReady, pRetrieved, nSignals, nSet, err39, terminated, dpc,
             unwinding, nCalls, tpc>>

vars23 == <<pc23, s23, w23, out23, ret23, calls23>>

vars39t == <<pcT, pc1, pc2, i39, lastWake, notifiedEarly>>

vars == <<vars20, vars36, vars37, vars39, vars39p, vars23, vars39t>>

\* what each program leaves alone: the other programs' variables
other20 == <<vars36, vars37, vars39, vars39p, vars23, vars39t>>
other36 == <<vars20, vars37, vars39, vars39p, vars23, vars39t>>
other37 == <<vars20, vars36, vars39, vars39p, vars23, vars39t>>
other39 == <<vars20, vars36, vars37, vars39p, vars23, vars39t>>
other39p == <<vars20, vars36, vars37, vars39, vars23, vars39t>>
other23 == <<vars20, vars36, vars37, vars39, vars39p, vars39t>>
other39t == <<vars20, vars36, vars37, vars39p, vars23, pc39, pc3, pc4, flag, ret39>>

\* ------------------------------------------------- item20: smart pointers

\* std::make_shared: a fresh control block with strong count 1
make_shared(r, o) == [r EXCEPT ![o] = 1]

\* copying a shared_ptr: one more owner
CopyShared(r, o) == IF o = Null THEN r ELSE [r EXCEPT ![o] = @ + 1]

\* destroying or resetting a shared_ptr: one owner fewer
ReleaseShared(r, o) == IF o = Null THEN r ELSE [r EXCEPT ![o] = @ - 1]

\* the Widgets still alive under counts r: the last owner destroys the object
Surviving(a, r) == {o \in a : r[o] > 0}

\* faulty variant: a weak_ptr that counts as an owner
WeakCtorCounting(r, o) == CopyShared(r, o)

\* std::weak_ptr<Widget> wpw(spw): the strong count is not affected
WeakCtor(r, o) == r

\* wpw.expired(): use_count() == 0
expired(r, w) == w = Null \/ r[w] = 0

\* wpw.lock(): null if expired, else a shared_ptr to the object
lock(r, w) == IF expired(r, w) THEN Null ELSE w

\* faulty variant: the converting constructor never throws
ThrowsNever(r, w) == FALSE

\* std::shared_ptr<Widget> spw3(wpw) throws std::bad_weak_ptr if wpw expired
ThrowsBadWeakPtr(r, w) == expired(r, w)

Init20 ==
  /\ rc = [o \in Obj |-> 0]
  /\ alive = {}
  /\ nextObj = 1
  /\ objFor = [o \in Obj |-> Null]
  /\ pc20 = "make"
  /\ spw = Null /\ wpw = Null /\ spw1 = Null /\ spw2 = Null
  /\ exc20 = "none"
  /\ out20 = <<>>
  /\ ret20 = -1
  /\ cache = [id \in WidgetID |-> Null]
  /\ held = [s \in Slot |-> Null]
  /\ nLoad = 0 /\ nFast = 0
  /\ lastId = Null /\ lastPtr = Null

cacheVars == <<cache, held, nLoad, nFast, lastId, lastPtr>>
mainLocals == <<spw, wpw, spw1, spw2, exc20, out20, ret20>>

\* auto spw = std::make_shared<Widget>();
MainMake ==
  /\ pc20 = "make"
  /\ nextObj <= MaxObjs
  /\ rc' = make_shared(rc, nextObj)
  /\ alive' = alive \cup {nextObj}
  /\ spw' = nextObj
  /\ nextObj' = nextObj + 1
  /\ pc20' = "weak"
  /\ UNCHANGED <<objFor, wpw, spw1, spw2, exc20, out20, ret20, cacheVars>>
  /\ UNCHANGED other20

\* std::weak_ptr<Widget> wpw(spw);
MainWeak ==
  /\ pc20 = "weak"
  /\ wpw' = spw
  /\ rc' = WeakCtor(rc, spw)
  /\ alive' = Surviving(alive, rc')
  /\ pc20' = "reset"
  /\ UNCHANGED <<nextObj, objFor, spw, spw1, spw2, exc20, out20, ret20, cacheVars>>
  /\ UNCHANGED other20

\* spw = nullptr;
MainReset ==
  /\ pc20 = "reset"
  /\ rc' = ReleaseShared(rc, spw)
  /\ alive' = Surviving(alive, rc')
  /\ spw' = Null
  /\ pc20' = "expired"
  /\ UNCHANGED <<nextObj, objFor, wpw, spw1, spw2, exc20, out20, ret20, cacheVars>>
  /\ UNCHANGED other20

\* if (wpw.expired()) std::cout << "wpw has expired" << '\n';
MainExpired ==
  /\ pc20 = "expired"
  /\ out20' = IF expired(rc, wpw) THEN Append(out20, "wpw has expired") ELSE out20
  /\ pc20' = "lock1"
  /\ UNCHANGED <<rc, alive, nextObj, objFor, spw, wpw, spw1, spw2, exc20, ret20, cacheVars>>
  /\ UNCHANGED other20

\* std::shared_ptr<Widget> spw1 = wpw.lock();
MainLock1 ==
  /\ pc20 = "lock1"
  /\ spw1' = lock(rc, wpw)
  /\ rc' = CopyShared(rc, spw1')
  /\ pc20' = "lock2"
  /\ UNCHANGED <<alive, nextObj, objFor, spw, wpw, spw2, exc20, out20, ret20, cacheVars>>
  /\ UNCHANGED other20

\* auto spw2 = wpw.lock();
MainLock2 ==
  /\ pc20 = "lock2"
  /\ spw2' = lock(rc, wpw)
  /\ rc' = CopyShared(rc, spw2')
  /\ pc20' = "try"
  /\ UNCHANGED <<alive, nextObj, objFor, spw, wpw, spw1, exc20, out20, ret20, cacheVars>>
  /\ UNCHANGED other20

\* try { std::shared_ptr<Widget> spw3(wpw); }
\* Without a throw spw3 is built and destroyed at the end of the block, which
\* leaves the count as it was.
MainTry ==
  /\ pc20 = "try"
  /\ IF ThrowsBadWeakPtr(rc, wpw)
       THEN exc20' = "bad_weak_ptr" /\ pc20' = "catch"
       ELSE exc20' = exc20 /\ pc20' = "ret"
  /\ UNCHANGED <<rc, alive, nextObj, objFor, spw, wpw, spw1, spw2, out20, ret20, cacheVars>>
  /\ UNCHANGED other20

\* catch (const std::bad_weak_ptr& e) { std::cout << e.what() << '\n'; }
MainCatch ==
  /\ pc20 = "catch"
  /\ exc20 = "bad_weak_ptr"
  /\ out20' = Append(out20, "e.what()")
  /\ exc20' = "none"
  /\ pc20' = "ret"
  /\ UNCHANGED <<rc, alive, nextObj, objFor, spw, wpw, spw1, spw2, ret20, cacheVars>>
  /\ UNCHANGED other20

\* return 0; the locals spw2, spw1, wpw, spw are destroyed
MainReturn ==
  /\ pc20 = "ret"
  /\ rc' = ReleaseShared(ReleaseShared(ReleaseShared(rc, spw2), spw1), spw)
  /\ alive' = Surviving(alive, rc')
  /\ spw' = Null /\ wpw' = Null /\ spw1' = Null /\ spw2' = Null
  /\ ret20' = 0
  /\ pc20' = "done"
  /\ UNCHANGED <<nextObj, objFor, exc20, out20, cacheVars>>
  /\ UNCHANGED other20

Main20 ==
  \/ MainMake \/ MainWeak \/ MainReset \/ MainExpired \/ MainLock1
  \/ MainLock2 \/ MainTry \/ MainCatch \/ MainReturn

\* ------------------------------------------------ item20: fastLoadWidget

\* faulty variant: the freshly loaded object is not remembered in the cache
CacheStoreNothing(c, id, o) == c

\* cache[id] = objPtr;
CacheStore(c, id, o) == [c EXCEPT ![id] = o]

\* loadWidget(id): std::make_shared<const Widget>(), never null
loadWidget(r, o) == make_shared(r, o)

\* One call fastLoadWidget(id) by a caller that keeps the returned pointer in
\* slot keep, or lets the temporary die at once (keep = Null).
fastLoadWidget(id, keep) ==
  LET found  == lock(rc, cache[id])          \* auto objPtr = cache[id].lock();
      miss   == found = Null                 \* if (!objPtr)
      objPtr == IF miss THEN nextObj ELSE found
      rc1    == IF miss THEN loadWidget(rc, nextObj) ELSE CopyShared(rc, found)
      rc2    == IF keep = Null THEN ReleaseShared(rc1, objPtr) ELSE rc1
  IN  /\ nFast < MaxCalls
      /\ miss => nextObj <= MaxObjs
      /\ keep # Null => held[keep] = Null
      /\ rc' = rc2
      /\ alive' = Surviving(IF miss THEN alive \cup {objPtr} ELSE alive, rc2)
      /\ nextObj' = IF miss THEN nextObj + 1 ELSE nextObj
      /\ objFor' = IF miss THEN [objFor EXCEPT ![objPtr] = id] ELSE objFor
      /\ cache' = IF miss THEN CacheStore(cache, id, objPtr) ELSE cache
      /\ nLoad' = IF miss THEN nLoad + 1 ELSE nLoad
      /\ nFast' = nFast + 1
      /\ lastId' = id
      /\ lastPtr' = objPtr
      /\ held' = IF keep = Null THEN held ELSE [held EXCEPT ![keep] = objPtr]
      /\ UNCHANGED <<pc20, mainLocals>>
      /\ UNCHANGED other20

\* a caller destroys a shared_ptr it got from fastLoadWidget
DropHeld(s) ==
  /\ held[s] # Null
  /\ rc' = ReleaseShared(rc, held[s])
  /\ alive' = Surviving(alive, rc')
  /\ held' = [held EXCEPT ![s] = Null]
  /\ UNCHANGED <<nextObj, objFor, pc20, mainLocals, cache, nLoad, nFast, lastId, lastPtr>>
  /\ UNCHANGED other20

Callers20 ==
  \/ \E id \in WidgetID, keep \in Slot \cup {Null} : fastLoadWidget(id, keep)
  \/ \E s \in Slot : DropHeld(s)

Next20 == Main20 \/ Callers20

\* --------------------------------------------------- item36: std::async

\* the futures: main's fut, and the future a caller of reallyAsync(f) or of
\* std::async(f) gets
Fut == {"fut", "cfut"}

\* the thread that holds each future
Owner(t) == IF t = "fut" THEN "main" ELSE "caller"

\* the thread std::async creates for a task launched asynchronously
Worker(t) == IF t = "fut" THEN "worker_fut" ELSE "worker_cfut"

\* faulty variant: reallyAsync forgets the policy argument
PolicySetDefault(call) == {"async", "deferred"}

\* the launch policies a call lets the implementation choose from:
\* std::async(f) is std::async(std::launch::async | std::launch::deferred, f),
\* reallyAsync passes std::launch::async
PolicySet(call) == IF call = "reallyAsync" THEN {"async"} ELSE {"async", "deferred"}

\* faulty variant: a deferred task gets a thread too
OnNewThreadAlways(p) == TRUE

\* std::launch::async: f must run on a different thread;
\* std::launch::deferred: no thread, f waits for get or wait
OnNewThread(p) == p = "async"

\* std::async(policy p, f) creating the shared state of future t
Launch(tk, t, p) ==
  [tk EXCEPT ![t] = [pol |-> p, run |-> "idle",
                     thr |-> IF OnNewThread(p) THEN Worker(t) ELSE "none"]]

\* fut.wait_for(d) on a task that has not finished within d
wait_for(tk, t) ==
  IF tk[t].run = "done" THEN "ready"
  ELSE IF tk[t].pol = "deferred" THEN "deferred"
  ELSE "timeout"

\* faulty variant: main does not test for a deferred task (the loop of line 87)
IsDeferredIgnored(st) == FALSE

\* fut.wait_for(0s) == std::future_status::deferred
IsDeferred(st) == st = "deferred"

Init36 ==
  /\ task = [t \in Fut |-> [pol |-> "none", run |-> "idle", thr |-> "none"]]
  /\ asked = [t \in Fut |-> FALSE]
  /\ pc36 = "async"
  /\ st36 = "none"
  /\ ret36 = -1
  /\ cpc36 = "start"
  /\ ccall36 = "none"
  /\ cst36 = "none"

callerVars36 == <<cpc36, ccall36, cst36>>

\* auto fut = std::async(f);
Main36Async ==
  /\ pc36 = "async"
  /\ \E p \in PolicySet("async") : task' = Launch(task, "fut", p)
  /\ pc36' = "check"
  /\ UNCHANGED <<asked, st36, ret36, callerVars36>>
  /\ UNCHANGED other36

\* if (fut.wait_for(0s) == std::future_status::deferred) { } else ...
Main36Check ==
  /\ pc36 = "check"
  /\ st36' = wait_for(task, "fut")
  /\ pc36' = IF IsDeferred(st36') THEN "ret" ELSE "loop"
  /\ UNCHANGED <<task, asked, ret36, callerVars36>>
  /\ UNCHANGED other36

\* while (fut.wait_for(100ms) != std::future_status::ready) { }
Main36Loop ==
  /\ pc36 = "loop"
  /\ st36' = wait_for(task, "fut")
  /\ pc36' = IF st36' # "ready" THEN "loop" ELSE "ret"
  /\ UNCHANGED <<task, asked, ret36, callerVars36>>
  /\ UNCHANGED other36

\* return 0; fut is destroyed: the future of an asynchronously launched task
\* blocks in its destructor until the task has finished
Main36Return ==
  /\ pc36 = "ret"
  /\ task["fut"].pol = "async" => task["fut"].run = "done"
  /\ ret36' = 0
  /\ pc36' = "done"
  /\ UNCHANGED <<task, asked, st36, callerVars36>>
  /\ UNCHANGED other36

Main36 == Main36Async \/ Main36Check \/ Main36Loop \/ Main36Return

\* the thread of an asynchronously launched task starts to run f
WorkerStart(t) ==
  /\ task[t].thr = Worker(t)
  /\ task[t].run = "idle"
  /\ task' = [task EXCEPT ![t].run = "running"]
  /\ UNCHANGED <<asked, pc36, st36, ret36, callerVars36>>
  /\ UNCHANGED other36

\* void f() { std::this_thread::sleep_for(1s); } returns
WorkerFinish(t) ==
  /\ task[t].thr = Worker(t)
  /\ task[t].run = "running"
  /\ task' = [task EXCEPT ![t].run = "done"]
  /\ UNCHANGED <<asked, pc36, st36, ret36, callerVars36>>
  /\ UNCHANGED other36

\* a caller launches f through reallyAsync(f) or through std::async(f)
CallerLaunch(call) ==
  /\ cpc36 = "start"
  /\ \E p \in PolicySet(call) : task' = Launch(task, "cfut", p)
  /\ ccall36' = call
  /\ cpc36' = "has"
  /\ UNCHANGED <<asked, pc36, st36, ret36, cst36>>
  /\ UNCHANGED other36

\* the caller polls its future
CallerWaitFor ==
  /\ cpc36 = "has"
  /\ cst36' = wait_for(task, "cfut")
  /\ cst36' # cst36
  /\ UNCHANGED <<task, asked, pc36, st36, ret36, cpc36, ccall36>>
  /\ UNCHANGED other36

\* the caller calls get (the future becomes invalid) or wait: a deferred f
\* runs now, in the caller's thread, and the call returns when f has; for an
\* asynchronous task the call blocks until f has finished
CallerGetOrWait(op) ==
  /\ cpc36 = "has"
  /\ task["cfut"].pol = "async" => task["cfut"].run = "done"
  /\ task' = IF task["cfut"].pol = "deferred" /\ task["cfut"].run = "idle"
               THEN [task EXCEPT !["cfut"].run = "done", !["cfut"].thr = Owner("cfut")]
               ELSE task
  /\ asked' = [asked EXCEPT !["cfut"] = TRUE]
  /\ cpc36' = IF op = "get" THEN "got" ELSE "has"
  /\ asked'["cfut"] # asked["cfut"] \/ cpc36' # cpc36
  /\ UNCHANGED <<pc36, st36, ret36, ccall36, cst36>>
  /\ UNCHANGED other36

\* the caller destroys its future; as in main, an asynchronous task is
\* waited for, a deferred one that never ran is dropped
CallerDrop ==
  /\ cpc36 \in {"has", "got"}
  /\ task["cfut"].pol = "async" => task["cfut"].run = "done"
  /\ cpc36' = "end"
  /\ UNCHANGED <<task, asked, pc36, st36, ret36, ccall36, cst36>>
  /\ UNCHANGED other36

Caller36 ==
  \/ \E call \in {"reallyAsync", "async"} : CallerLaunch(call)
  \/ CallerWaitFor
  \/ \E op \in {"get", "wait"} : CallerGetOrWait(op)
  \/ CallerDrop

Workers36 == \E t \in Fut : WorkerStart(t) \/ WorkerFinish(t)

Next36 == Main36 \/ Workers36 \/ Caller36

\* --------------------------------------------------- item37: ThreadRAII

DtorAction == {"join", "detach"}

\* faulty variant: a destructor without the else branch
DtorStepNoDetach(j, a) == IF j /\ a = "join" THEN "join" ELSE "nothing"

\* ~ThreadRAII(): what the destructor does to t
\*   if (t.joinable()) { if (action == DtorAction::join) t.join(); else t.detach(); }
DtorStep(j, a) ==
  IF j THEN (IF a = "join" THEN "join" ELSE "detach") ELSE "nothing"

Init37 ==
  /\ pc37 = "ctor"
  /\ action = "none"
  /\ joinable = FALSE
  /\ detached = FALSE
  /\ tfun = "none"
  /\ i37 = 0
  /\ filter = {}
  /\ goodVals = <<>>
  /\ ret37 = "none"

\* ThreadRAII t(std::thread(lambda), a): action(a), t(std::move(t)).
\* doWork passes a running thread and DtorAction::join; the constructor also
\* accepts DtorAction::detach and a std::thread that is not joinable (a
\* default-constructed or moved-from one), which has no thread function.
ThreadRAIICtor(flt, a, running) ==
  /\ pc37 = "ctor"
  /\ filter' = flt
  /\ action' = a
  /\ joinable' = running
  /\ tfun' = IF running THEN "running" ELSE "none"
  /\ pc37' = "body"
  /\ UNCHANGED <<detached, i37, goodVals, ret37>>
  /\ UNCHANGED other37

\* one turn of the thread function's loop:
\*   for (auto i = 0; i <= maxVal; ++i) if (filter(i)) goodVals.push_back(i);
\* Once doWork has returned, filter and goodVals are dangling references in a
\* detached thread: what is read and what becomes of the write is not defined.
ThreadLoop ==
  /\ tfun = "running"
  /\ i37 <= MaxVal
  /\ i37' = i37 + 1
  /\ IF pc37 = "destroyed"
       THEN goodVals' \in {goodVals, Append(goodVals, i37)}
       ELSE goodVals' = IF i37 \in filter THEN Append(goodVals, i37) ELSE goodVals
  /\ UNCHANGED <<pc37, action, joinable, detached, tfun, filter, ret37>>
  /\ UNCHANGED other37

\* the thread function returns
ThreadEnd ==
  /\ tfun = "running"
  /\ i37 > MaxVal
  /\ tfun' = "finished"
  /\ UNCHANGED <<pc37, action, joinable, detached, i37, filter, goodVals, ret37>>
  /\ UNCHANGED other37

\* if (conditionsAreSatisfied()) { t.get().join(); return true; }
\* join returns when the thread function has finished
BodyJoin ==
  /\ pc37 = "body"
  /\ joinable
  /\ tfun = "finished"
  /\ joinable' = FALSE
  /\ ret37' = "true"
  /\ pc37' = "dtor"
  /\ UNCHANGED <<action, detached, tfun, i37, filter, goodVals>>
  /\ UNCHANGED other37

\* return false;
BodySkip ==
  /\ pc37 = "body"
  /\ ret37' = "false"
  /\ pc37' = "dtor"
  /\ UNCHANGED <<action, joinable, detached, tfun, i37, filter, goodVals>>
  /\ UNCHANGED other37

\* ~ThreadRAII() at the end of the owner's scope
ThreadRAIIDtor ==
  /\ pc37 = "dtor"
  /\ LET step == DtorStep(joinable, action)
     IN  /\ step = "join" => tfun = "finished"     \* t.join() blocks until then
         /\ joinable' = IF step \in {"join", "detach"} THEN FALSE ELSE joinable
         /\ detached' = IF step = "detach" THEN TRUE ELSE detached
  /\ pc37' = "destroyed"
  /\ UNCHANGED <<action, tfun, i37, filter, goodVals, ret37>>
  /\ UNCHANGED other37

Next37 ==
  \/ \E flt \in SUBSET (0..MaxVal), a \in DtorAction, running \in BOOLEAN :
       ThreadRAIICtor(flt, a, running)
  \/ ThreadLoop
  \/ ThreadEnd
  \/ BodyJoin
  \/ BodySkip
  \/ ThreadRAIIDtor

\* ------------------------------------------ item39: condvar and flag, main

\* faulty variant: detectFlag without its cv.notify_one()
NotifyNobody(w) == {}

\* cv.notify_one(): the waiting threads it unblocks (one, if any waits)
NotifyOne(w) == IF w = {} THEN {} ELSE {CHOOSE t \in w : TRUE}

\* faulty variant: a wait that takes any wakeup for the event
PredIgnored(f) == TRUE

\* the predicate of reactFlag's wait: []{ return flag; }
Pred(f) == f

Init39 ==
  /\ pc39 = "spawn3"
  /\ pc3 = "none"
  /\ pc4 = "none"
  /\ m = "free"
  /\ flag = FALSE
  /\ cvWaiters = {}
  /\ spurious = 0
  /\ out39 = <<>>
  /\ ret39 = -1

\* std::thread th3(detectFlag);
MainSpawn3 ==
  /\ pc39 = "spawn3"
  /\ pc3' = "lock"
  /\ pc39' = "spawn4"
  /\ UNCHANGED <<pc4, m, flag, cvWaiters, spurious, out39, ret39>>
  /\ UNCHANGED other39

\* std::thread th4(reactFlag);
MainSpawn4 ==
  /\ pc39 = "spawn4"
  /\ pc4' = "lock"
  /\ pc39' = "join3"
  /\ UNCHANGED <<pc3, m, flag, cvWaiters, spurious, out39, ret39>>
  /\ UNCHANGED other39

\* th3.join();
MainJoin3 ==
  /\ pc39 = "join3"
  /\ pc3 = "done"
  /\ pc39' = "join4"
  /\ UNCHANGED <<pc3, pc4, m, flag, cvWaiters, spurious, out39, ret39>>
  /\ UNCHANGED other39

\* th4.join();
MainJoin4 ==
  /\ pc39 = "join4"
  /\ pc4 = "done"
  /\ pc39' = "ret"
  /\ UNCHANGED <<pc3, pc4, m, flag, cvWaiters, spurious, out39, ret39>>
  /\ UNCHANGED other39

\* return 0;
MainReturn39 ==
  /\ pc39 = "ret"
  /\ ret39' = 0
  /\ pc39' = "done"
  /\ UNCHANGED <<pc3, pc4, m, flag, cvWaiters, spurious, out39>>
  /\ UNCHANGED other39

\* detectFlag: std::lock_guard<std::mutex> g(m);
DetectLock ==
  /\ pc3 = "lock"
  /\ m = "free"
  /\ m' = "th3"
  /\ pc3' = "sleep"
  /\ UNCHANGED <<pc39, pc4, flag, cvWaiters, spurious, out39, ret39>>
  /\ UNCHANGED other39

\* detectFlag: std::this_thread::sleep_for(std::chrono::seconds(2));
DetectSleep ==
  /\ pc3 = "sleep"
  /\ pc3' = "set"
  /\ UNCHANGED <<pc39, pc4, m, flag, cvWaiters, spurious, out39, ret39>>
  /\ UNCHANGED other39

\* detectFlag: flag = true;
DetectSet ==
  /\ pc3 = "set"
  /\ flag' = TRUE
  /\ pc3' = "unlock"
  /\ UNCHANGED <<pc39, pc4, m, cvWaiters, spurious, out39, ret39>>
  /\ UNCHANGED other39

\* detectFlag: the closing brace of the block destroys g
DetectUnlock ==
  /\ pc3 = "unlock"
  /\ m' = "free"
  /\ pc3' = "notify"
  /\ UNCHANGED <<pc39, pc4, flag, cvWaiters, spurious, out39, ret39>>
  /\ UNCHANGED other39

\* detectFlag: cv.notify_one();
DetectNotify ==
  /\ pc3 = "notify"
  /\ LET woken == NotifyOne(cvWaiters)
     IN  /\ cvWaiters' = cvWaiters \ woken
         /\ pc4' = IF "th4" \in woken THEN "woken" ELSE pc4
  /\ pc3' = "done"
  /\ UNCHANGED <<pc39, m, flag, spurious, out39, ret39>>
  /\ UNCHANGED other39

\* reactFlag: std::unique_lock<std::mutex> lk(m);
ReactLock ==
  /\ pc4 = "lock"
  /\ m = "free"
  /\ m' = "th4"
  /\ pc4' = "pred"
  /\ UNCHANGED <<pc39, pc3, flag, cvWaiters, spurious, out39, ret39>>
  /\ UNCHANGED other39

\* reactFlag: cv.wait(lk, pred) is while (!pred()) wait(lk): with the mutex
\* held the predicate is evaluated; if it is false the thread releases the
\* mutex and blocks, in one atomic step
ReactPred ==
  /\ pc4 = "pred"
  /\ IF Pred(flag)
       THEN pc4' = "print" /\ UNCHANGED <<m, cvWaiters>>
       ELSE pc4' = "waiting" /\ m' = "free" /\ cvWaiters' = cvWaiters \cup {"th4"}
  /\ UNCHANGED <<pc39, pc3, flag, spurious, out39, ret39>>
  /\ UNCHANGED other39

\* reactFlag: wait(lk) unblocks without a notification (a spurious wakeup)
ReactSpurious ==
  /\ pc4 = "waiting"
  /\ cvWaiters' = cvWaiters \ {"th4"}
  /\ spurious' = IF spurious < MaxSpurious THEN spurious + 1 ELSE spurious
  /\ pc4' = "woken"
  /\ UNCHANGED <<pc39, pc3, m, flag, out39, ret39>>
  /\ UNCHANGED other39

\* reactFlag: wait(lk) locks the mutex again before it returns
ReactReacquire ==
  /\ pc4 = "woken"
  /\ m = "free"
  /\ m' = "th4"
  /\ pc4' = "pred"
  /\ UNCHANGED <<pc39, pc3, flag, cvWaiters, spurious, out39, ret39>>
  /\ UNCHANGED other39

\* reactFlag: std::cout << "flag has set to true" << "\n";
ReactPrint ==
  /\ pc4 = "print"
  /\ out39' = Append(out39, "flag has set to true")
  /\ pc4' = "unlock"
  /\ UNCHANGED <<pc39, pc3, m, flag, cvWaiters, spurious, ret39>>
  /\ UNCHANGED other39

\* reactFlag returns: lk is destroyed
ReactUnlock ==
  /\ pc4 = "unlock"
  /\ m' = "free"
  /\ pc4' = "done"
  /\ UNCHANGED <<pc39, pc3, flag, cvWaiters, spurious, out39, ret39>>
  /\ UNCHANGED other39

Main39 == MainSpawn3 \/ MainSpawn4 \/ MainJoin3 \/ MainJoin4 \/ MainReturn39

detectFlag == DetectLock \/ DetectSleep \/ DetectSet \/ DetectUnlock \/ DetectNotify

reactFlag ==
  \/ ReactLock \/ ReactPred \/ ReactSpurious \/ ReactReacquire
  \/ ReactPrint \/ ReactUnlock

Next39 == Main39 \/ detectFlag \/ reactFlag

\* ------------------------------------- item39: std::promise<void> p

\* the reacting threads of detectMuitiple: for (int i = 0; i < 3; ++i)
NumReact == 3

React == 1..NumReact

\* faulty variant: a promise that can be set again
SetValueThrowsNever(ready) == FALSE

\* p.set_value() throws std::future_error (promise_already_satisfied) if the
\* shared state already holds a value
SetValueThrows(ready) == ready

\* p.get_future() throws std::future_error (future_already_retrieved) if it
\* was called before
GetFutureThrows(retrieved) == retrieved

Init39p ==
  /\ pReady = FALSE
  /\ pRetrieved = FALSE
  /\ nSignals = 0
  /\ nSet = 0
  /\ err39 = "none"
  /\ terminated = FALSE
  /\ dpc = "idle"
  /\ unwinding = FALSE
  /\ nCalls = 0
  /\ tpc = [k \in React |-> "none"]

\* a thread calls detectVoid, detectSuspend or detectMuitiple; a
\* std::future_error that leaves the function is handled by that caller
CallDetect(fn) ==
  /\ ~terminated
  /\ dpc = "idle"
  /\ nCalls < MaxDetect
  /\ nCalls' = nCalls + 1
  /\ dpc' = CASE fn = "detectVoid" -> "dv_set"
              [] fn = "detectSuspend" -> "ds_spawn"
              [] OTHER -> "dm_getfut"
  /\ UNCHANGED <<pReady, pRetrieved, nSignals, nSet, err39, terminated, unwinding, tpc>>
  /\ UNCHANGED other39p

\* detectVoid: p.set_value();
DetectVoidSet ==
  /\ ~terminated
  /\ dpc = "dv_set"
  /\ nSet' = nSet + 1
  /\ IF SetValueThrows(pReady)
       THEN err39' = "promise_already_satisfied" /\ UNCHANGED <<pReady, nSignals>>
       ELSE pReady' = TRUE /\ nSignals' = nSignals + 1 /\ err39' = err39
  /\ dpc' = "idle"
  /\ UNCHANGED <<pRetrieved, terminated, unwinding, nCalls, tpc>>
  /\ UNCHANGED other39p

\* detectSuspend: ThreadRAII tr(std::thread([]{ p.get_future().wait();
\*                reactSuspend(); }), ThreadRAII::DtorAction::join);
DetectSuspendSpawn ==
  /\ ~terminated
  /\ dpc = "ds_spawn"
  /\ tpc' = [tpc EXCEPT ![1] = "getfut"]
  /\ dpc' = "ds_set"
  /\ UNCHANGED <<pReady, pRetrieved, nSignals, nSet, err39, terminated, unwinding, nCalls>>
  /\ UNCHANGED other39p

\* detectSuspend: p.set_value(); an exception unwinds through tr
DetectSuspendSet ==
  /\ ~terminated
  /\ dpc = "ds_set"
  /\ nSet' = nSet + 1
  /\ IF SetValueThrows(pReady)
       THEN /\ err39' = "promise_already_satisfied"
            /\ unwinding' = TRUE
            /\ UNCHANGED <<pReady, nSignals>>
       ELSE /\ pReady' = TRUE
            /\ nSignals' = nSignals + 1
            /\ UNCHANGED <<err39, unwinding>>
  /\ dpc' = "join"
  /\ UNCHANGED <<pRetrieved, terminated, nCalls, tpc>>
  /\ UNCHANGED other39p

\* detectMuitiple: auto sf = p.get_future().share();
DetectMuitipleGetFuture ==
  /\ ~terminated
  /\ dpc = "dm_getfut"
  /\ IF GetFutureThrows(pRetrieved)
       THEN err39' = "future_already_retrieved" /\ dpc' = "idle" /\ UNCHANGED pRetrieved
       ELSE pRetrieved' = TRUE /\ dpc' = "dm_spawn" /\ UNCHANGED err39
  /\ UNCHANGED <<pReady, nSignals, nSet, terminated, unwinding, nCalls, tpc>>
  /\ UNCHANGED other39p

\* detectMuitiple: vt.emplace_back([sf] { sf.wait(); reactVoid(); });
DetectMuitipleSpawn ==
  /\ ~terminated
  /\ dpc = "dm_spawn"
  /\ LET k == CHOOSE j \in React : tpc[j] = "none" /\ \A h \in 1..(j - 1) : tpc[h] # "none"
     IN  /\ tpc' = [tpc EXCEPT ![k] = "sfwait"]
         /\ dpc' = IF k = NumReact THEN "dm_set" ELSE "dm_spawn"
  /\ UNCHANGED <<pReady, pRetrieved, nSignals, nSet, err39, terminated, unwinding, nCalls>>
  /\ UNCHANGED other39p

\* detectMuitiple: p.set_value(); an exception destroys vt, whose threads are
\* joinable: std::terminate
DetectMuitipleSet ==
  /\ ~terminated
  /\ dpc = "dm_set"
  /\ nSet' = nSet + 1
  /\ IF SetValueThrows(pReady)
       THEN /\ err39' = "promise_already_satisfied"
            /\ terminated' = TRUE
            /\ UNCHANGED <<pReady, nSignals>>
       ELSE /\ pReady' = TRUE
            /\ nSignals' = nSignals + 1
            /\ UNCHANGED <<err39, terminated>>
  /\ dpc' = "join"
  /\ UNCHANGED <<pRetrieved, unwinding, nCalls, tpc>>
  /\ UNCHANGED other39p

\* ~ThreadRAII() with DtorAction::join in detectSuspend, and the loop
\* for (auto& t: vt) t.join() in detectMuitiple: the function returns (or the
\* exception goes on to the caller) when every thread it started has finished
DetectJoin ==
  /\ ~terminated
  /\ dpc = "join"
  /\ \A k \in React : tpc[k] \in {"none", "done"}
  /\ tpc' = [k \in React |-> "none"]
  /\ unwinding' = FALSE
  /\ dpc' = "idle"
  /\ UNCHANGED <<pReady, pRetrieved, nSignals, nSet, err39, terminated, nCalls>>
  /\ UNCHANGED other39p

\* a thread of detectMuitiple: sf.wait(); returns once the event is signalled
ThreadSfWait(k) ==
  /\ ~terminated
  /\ tpc[k] = "sfwait"
  /\ pReady
  /\ tpc' = [tpc EXCEPT ![k] = "getfut"]
  /\ UNCHANGED <<pReady, pRetrieved, nSignals, nSet, err39, terminated, dpc, unwinding, nCalls>>
  /\ UNCHANGED other39p

\* a reacting thread (the lambda of detectSuspend, reactVoid in a thread of
\* detectMuitiple): p.get_future(); an exception that leaves a thread
\* function ends in std::terminate
ThreadGetFuture(k) ==
  /\ ~terminated
  /\ tpc[k] = "getfut"
  /\ IF GetFutureThrows(pRetrieved)
       THEN /\ err39' = "future_already_retrieved"
            /\ terminated' = TRUE
            /\ UNCHANGED <<pRetrieved, tpc>>
       ELSE /\ pRetrieved' = TRUE
            /\ tpc' = [tpc EXCEPT ![k] = "wait"]
            /\ UNCHANGED <<err39, terminated>>
  /\ UNCHANGED <<pReady, nSignals, nSet, dpc, unwinding, nCalls>>
  /\ UNCHANGED other39p

\* a reacting thread: .wait() on the future returns once the event is
\* signalled; reactSuspend() does nothing and the thread function returns
ThreadWait(k) ==
  /\ ~terminated
  /\ tpc[k] = "wait"
  /\ pReady
  /\ tpc' = [tpc EXCEPT ![k] = "done"]
  /\ UNCHANGED <<pReady, pRetrieved, nSignals, nSet, err39, terminated, dpc, unwinding, nCalls>>
  /\ UNCHANGED other39p

Detect39p ==
  \/ \E fn \in {"detectVoid", "detectSuspend", "detectMuitiple"} : CallDetect(fn)
  \/ DetectVoidSet
  \/ DetectSuspendSpawn
  \/ DetectSuspendSet
  \/ DetectMuitipleGetFuture
  \/ DetectMuitipleSpawn
  \/ DetectMuitipleSet
  \/ DetectJoin

Threads39p == \E k \in React : ThreadSfWait(k) \/ ThreadGetFuture(k) \/ ThreadWait(k)

Next39p == Detect39p \/ Threads39p

\* ------------------------------------ item23: std::move and std::forward

\* An expression of class type Widget: whether its type is const, and its
\* value category.
Category == {"lvalue", "xvalue", "prvalue"}
Expr == [const : BOOLEAN, cat : Category]

IsRvalue(e) == e.cat \in {"xvalue", "prvalue"}

\* std::move(e): an unconditional cast to an rvalue; const is kept
\*   return static_cast<remove_reference<T>::type&&>(param);
move(e) == [const |-> e.const, cat |-> "xvalue"]

\* Deduction of T for the universal reference T&& param from the argument e:
\* an lvalue of type A gives T = A&, an rvalue of type A gives T = A
DeduceT(e) ==
  [const |-> e.const, ref |-> IF e.cat = "lvalue" THEN "lref" ELSE "none"]

\* reference collapsing of T&&: A& && is A&, A && and A&& && are A&&
CollapseRref(T) == IF T.ref = "lref" THEN "lref" ELSE "rref"

\* faulty variant: std::move in place of std::forward<T>
forwardAsMove(T) == [const |-> T.const, cat |-> "xvalue"]

\* std::forward<T>(param) is static_cast<T&&>(param): an lvalue if T&& is an
\* lvalue reference, an xvalue otherwise
forward(T) ==
  [const |-> T.const,
   cat |-> IF CollapseRref(T) = "lref" THEN "lvalue" ELSE "xvalue"]

\* Overload resolution between process(const Widget&) and process(Widget&&):
\* Widget&& binds only a non-const rvalue and is then the better match;
\* const Widget& binds everything.
process(e) ==
  IF IsRvalue(e) /\ ~e.const
    THEN "Called rvalue process"
    ELSE "Called lvalue process"

\* template<typename T> void logAndProcess(T&& param)
\*   { process(std::forward<T>(param)); }     the line it prints
logAndProcess(e) == process(forward(DeduceT(e)))

Init23 ==
  /\ pc23 = "s"
  /\ s23 = ""
  /\ w23 = "unset"
  /\ out23 = <<>>
  /\ ret23 = -1
  /\ calls23 = <<>>

\* auto s = std::string("a");
Main23String ==
  /\ pc23 = "s"
  /\ s23' = "a"
  /\ pc23' = "w"
  /\ UNCHANGED <<w23, out23, ret23, calls23>>
  /\ UNCHANGED other23

\* Widget w(s);  Widget(std::string value): s(std::move(value)): the
\* parameter is a copy of s, and the copy is moved into w.s
Main23Widget ==
  /\ pc23 = "w"
  /\ w23' = s23
  /\ pc23' = "log1"
  /\ UNCHANGED <<s23, out23, ret23, calls23>>
  /\ UNCHANGED other23

\* logAndProcess(w);  w is a non-const lvalue
Main23Log1 ==
  /\ pc23 = "log1"
  /\ out23' = Append(out23, logAndProcess([const |-> FALSE, cat |-> "lvalue"]))
  /\ pc23' = "log2"
  /\ UNCHANGED <<s23, w23, ret23, calls23>>
  /\ UNCHANGED other23

\* logAndProcess(std::move(w));  neither overload of process touches w
Main23Log2 ==
  /\ pc23 = "log2"
  /\ out23' = Append(out23, logAndProcess(move([const |-> FALSE, cat |-> "lvalue"])))
  /\ pc23' = "outs"
  /\ UNCHANGED <<s23, w23, ret23, calls23>>
  /\ UNCHANGED other23

\* std::cout << s << std::endl;
Main23OutS ==
  /\ pc23 = "outs"
  /\ out23' = Append(out23, s23)
  /\ pc23' = "outw"
  /\ UNCHANGED <<s23, w23, ret23, calls23>>
  /\ UNCHANGED other23

\* std::cout << w.gets() << std::endl;
Main23OutW ==
  /\ pc23 = "outw"
  /\ out23' = Append(out23, w23)
  /\ pc23' = "ret"
  /\ UNCHANGED <<s23, w23, ret23, calls23>>
  /\ UNCHANGED other23

\* return 0;
Main23Return ==
  /\ pc23 = "ret"
  /\ ret23' = 0
  /\ pc23' = "done"
  /\ UNCHANGED <<s23, w23, out23, calls23>>
  /\ UNCHANGED other23

Main23 ==
  \/ Main23String \/ Main23Widget \/ Main23Log1 \/ Main23Log2
  \/ Main23OutS \/ Main23OutW \/ Main23Return

\* some other caller passes a Widget expression e to logAndProcess
CallLogAndProcess(e) ==
  /\ Len(calls23) < MaxLog
  /\ calls23' = Append(calls23, [arg |-> e, line |-> logAndProcess(e)])
  /\ UNCHANGED <<pc23, s23, w23, out23, ret23>>
  /\ UNCHANGED other23

Next23 == Main23 \/ \E e \in Expr : CallLogAndProcess(e)

\* ------------------------------------- item39: detectTask and reactTask

\* the predicate of reactTask's wait: []{ ...; return i == 1; }
PredTask(v) == v = 1

Init39t ==
  /\ pcT = "spawn1"
  /\ pc1 = "none"
  /\ pc2 = "none"
  /\ i39 = 0
  /\ lastWake = "none"
  /\ notifiedEarly = FALSE

\* std::thread th1(detectTask);
TaskSpawn1 ==
  /\ pcT = "spawn1"
  /\ pc1' = "lock"
  /\ pcT' = "spawn2"
  /\ UNCHANGED <<pc2, i39, lastWake, notifiedEarly, m, cvWaiters, spurious, out39>>
  /\ UNCHANGED other39t

\* std::thread th2(reactTask);
TaskSpawn2 ==
  /\ pcT = "spawn2"
  /\ pc2' = "lock"
  /\ pcT' = "join2"
  /\ UNCHANGED <<pc1, i39, lastWake, notifiedEarly, m, cvWaiters, spurious, out39>>
  /\ UNCHANGED other39t

\* th2.join();
TaskJoin2 ==
  /\ pcT = "join2"
  /\ pc2 = "done"
  /\ pcT' = "join1"
  /\ UNCHANGED <<pc1, pc2, i39, lastWake, notifiedEarly, m, cvWaiters, spurious, out39>>
  /\ UNCHANGED other39t

\* th1.join();
TaskJoin1 ==
  /\ pcT = "join1"
  /\ pc1 = "done"
  /\ pcT' = "done"
  /\ UNCHANGED <<pc1, pc2, i39, lastWake, notifiedEarly, m, cvWaiters, spurious, out39>>
  /\ UNCHANGED other39t

\* detectTask: std::unique_lock<std::mutex> lk(m);
DetectTaskLock ==
  /\ pc1 = "lock"
  /\ m = "free"
  /\ m' = "th1"
  /\ pc1' = "set"
  /\ UNCHANGED <<pcT, pc2, i39, lastWake, notifiedEarly, cvWaiters, spurious, out39>>
  /\ UNCHANGED other39t

\* detectTask: i = 1;
DetectTaskSet ==
  /\ pc1 = "set"
  /\ i39' = 1
  /\ pc1' = "notify"
  /\ UNCHANGED <<pcT, pc2, lastWake, notifiedEarly, m, cvWaiters, spurious, out39>>
  /\ UNCHANGED other39t

\* detectTask: cv.notify_one();
DetectTaskNotify ==
  /\ pc1 = "notify"
  /\ LET woken == NotifyOne(cvWaiters)
     IN  /\ cvWaiters' = cvWaiters \ woken
         /\ pc2' = IF "th2" \in woken THEN "woken" ELSE pc2
         /\ lastWake' = IF "th2" \in woken THEN "notify" ELSE lastWake
  /\ notifiedEarly' = (pc2 \in {"none", "lock"})
  /\ pc1' = "print"
  /\ UNCHANGED <<pcT, i39, m, spurious, out39>>
  /\ UNCHANGED other39t

\* detectTask: std::cout << "detectTask finished." << "\n";
DetectTaskPrint ==
  /\ pc1 = "print"
  /\ out39' = Append(out39, "detectTask finished.")
  /\ pc1' = "unlock"
  /\ UNCHANGED <<pcT, pc2, i39, lastWake, notifiedEarly, m, cvWaiters, spurious>>
  /\ UNCHANGED other39t

\* detectTask returns: lk is destroyed
DetectTaskReturn ==
  /\ pc1 = "unlock"
  /\ m' = "free"
  /\ pc1' = "done"
  /\ UNCHANGED <<pcT, pc2, i39, lastWake, notifiedEarly, cvWaiters, spurious, out39>>
  /\ UNCHANGED other39t

\* reactTask: std::unique_lock<std::mutex> lk(m);
ReactTaskLock ==
  /\ pc2 = "lock"
  /\ m = "free"
  /\ m' = "th2"
  /\ pc2' = "pred"
  /\ UNCHANGED <<pcT, pc1, i39, lastWake, notifiedEarly, cvWaiters, spurious, out39>>
  /\ UNCHANGED other39t

\* reactTask: cv.wait(lk, pred) is while (!pred()) wait(lk): with the mutex
\* held the predicate prints "...finished waiting" and tests i == 1; if it is
\* false the thread releases the mutex and blocks, in one atomic step
ReactTaskPred ==
  /\ pc2 = "pred"
  /\ out39' = Append(out39, "...finished waiting")
  /\ IF PredTask(i39)
       THEN pc2' = "print" /\ UNCHANGED <<m, cvWaiters>>
       ELSE pc2' = "waiting" /\ m' = "free" /\ cvWaiters' = cvWaiters \cup {"th2"}
  /\ UNCHANGED <<pcT, pc1, i39, lastWake, notifiedEarly, spurious>>
  /\ UNCHANGED other39t

\* reactTask: wait(lk) unblocks without a notification (a spurious wakeup)
ReactTaskSpurious ==
  /\ pc2 = "waiting"
  /\ spurious < MaxSpurious
  /\ spurious' = spurious + 1
  /\ cvWaiters' = cvWaiters \ {"th2"}
  /\ lastWake' = "spurious"
  /\ pc2' = "woken"
  /\ UNCHANGED <<pcT, pc1, i39, notifiedEarly, m, out39>>
  /\ UNCHANGED other39t

\* reactTask: wait(lk) locks the mutex again before it returns
ReactTaskReacquire ==
  /\ pc2 = "woken"
  /\ m = "free"
  /\ m' = "th2"
  /\ pc2' = "pred"
  /\ UNCHANGED <<pcT, pc1, i39, lastWake, notifiedEarly, cvWaiters, spurious, out39>>
  /\ UNCHANGED other39t

\* reactTask: std::cout << "reactTask finished." << "\n";
ReactTaskPrint ==
  /\ pc2 = "print"
  /\ out39' = Append(out39, "reactTask finished.")
  /\ pc2' = "unlock"
  /\ UNCHANGED <<pcT, pc1, i39, lastWake, notifiedEarly, m, cvWaiters, spurious>>
  /\ UNCHANGED other39t

\* reactTask returns: lk is destroyed
ReactTaskReturn ==
  /\ pc2 = "unlock"
  /\ m' = "free"
  /\ pc2' = "done"
  /\ UNCHANGED <<pcT, pc1, i39, lastWake, notifiedEarly, cvWaiters, spurious, out39>>
  /\ UNCHANGED other39t

Tasks39t == TaskSpawn1 \/ TaskSpawn2 \/ TaskJoin2 \/ TaskJoin1

detectTask ==
  \/ DetectTaskLock \/ DetectTaskSet \/ DetectTaskNotify
  \/ DetectTaskPrint \/ DetectTaskReturn

reactTask ==
  \/ ReactTaskLock \/ ReactTaskPred \/ ReactTaskSpurious \/ ReactTaskReacquire
  \/ ReactTaskPrint \/ ReactTaskReturn

Next39t == Tasks39t \/ detectTask \/ reactTask

\* --------------------------------------------------------- specifications

Init == Init20 /\ Init36 /\ Init37 /\ Init39 /\ Init39p /\ Init23 /\ Init39t

Spec20 == Init /\ [][Next20]_vars

Spec36 == Init /\ [][Next36]_vars

\* The threads that exist keep running: main and the worker threads take
\* their next step when they can. The caller is free to stop at any point
\* (it need not call get or wait, nor destroy its future).
FairSpec36 ==
  /\ Spec36
  /\ WF_vars(Main36)
  /\ \A t \in Fut : WF_vars(WorkerStart(t)) /\ WF_vars(WorkerFinish(t))

Spec37 == Init /\ [][Next37]_vars

Spec39 == Init /\ [][Next39]_vars

\* Every thread that can take a step eventually takes it. A thread that asks
\* for the mutex gets it if the mutex is free again and again (strong
\* fairness: the mutex is taken and released by the other thread while it
\* asks). Spurious wakeups may happen at any time, or never.
FairSpec39 ==
  /\ Spec39
  /\ WF_vars(Main39)
  /\ WF_vars(DetectSleep \/ DetectSet \/ DetectUnlock \/ DetectNotify)
  /\ WF_vars(ReactPred \/ ReactPrint \/ ReactUnlock)
  /\ SF_vars(DetectLock)
  /\ SF_vars(ReactLock)
  /\ SF_vars(ReactReacquire)

Spec39p == Init /\ [][Next39p]_vars

Spec23 == Init /\ [][Next23]_vars

Spec39t == Init /\ [][Next39t]_vars

\* ---- claims about item20

AfterReset20 == {"expired", "lock1", "lock2", "try", "catch", "ret"}

\* C1: creating wpw from spw leaves the Widget's strong count at 1; once spw,
\* the only owner, is reset the count is 0, the Widget is destroyed, wpw is
\* expired, and main prints "wpw has expired".
C1_WeakPtrDoesNotOwn ==
  /\ pc20 \in {"weak", "reset"} => (spw # Null /\ rc[spw] = 1 /\ spw \in alive)
  /\ pc20 = "reset" => wpw = spw
  /\ pc20 \in AfterReset20 =>
       (spw = Null /\ wpw # Null /\ rc[wpw] = 0 /\ wpw \notin alive /\ expired(rc, wpw))
  /\ pc20 \in (AfterReset20 \ {"expired"}) \cup {"done"} =>
       (Len(out20) >= 1 /\ out20[1] = "wpw has expired")

\* C1 witness: main has passed the test of wpw.expired() and printed the line
C1_Witness == pc20 = "lock1" /\ out20 = <<"wpw has expired">> /\ rc[wpw] = 0

\* C2: with wpw expired both calls of wpw.lock() yield null and throw nothing,
\* the shared_ptr constructor throws std::bad_weak_ptr, the handler catches it
\* and prints its message, and main returns 0.
C2_LockNullCtorThrows ==
  /\ pc20 \in {"lock2", "try", "catch", "ret"} => spw1 = Null
  /\ pc20 \in {"try", "catch", "ret"} => spw2 = Null
  /\ pc20 \in {"lock1", "lock2", "try", "ret", "done"} => exc20 = "none"
  /\ pc20 = "catch" => exc20 = "bad_weak_ptr"
  /\ pc20 \in {"ret", "done"} => out20 = <<"wpw has expired", "e.what()">>
  /\ pc20 = "done" <=> ret20 = 0

\* C2 witness: main has returned 0 after the handler printed the message
C2_Witness == pc20 = "done" /\ ret20 = 0 /\ Len(out20) = 2 /\ out20[2] = "e.what()"

\* the objects loaded for id that some caller still holds
HeldFor(id) == {held[s] : s \in {t \in Slot : held[t] # Null /\ objFor[held[t]] = id}}

\* the objects loaded for id that still have an owner
LiveFor(id) == {o \in Obj : objFor[o] = id /\ rc[o] > 0}

\* C10: every call fastLoadWidget(id) returns a non-null pointer; while a
\* caller holds a pointer returned for id the call returns that same object
\* and does not call loadWidget; loadWidget is called only when no object
\* loaded for id is live.
C10_FastLoadWidgetCaches ==
  [][nFast' # nFast =>
       /\ lastPtr' # Null
       /\ HeldFor(lastId') # {} => (lastPtr' \in HeldFor(lastId') /\ nLoad' = nLoad)
       /\ nLoad' # nLoad => LiveFor(lastId') = {}
       /\ nLoad' = nLoad => lastPtr' \in LiveFor(lastId')]_vars

\* C10 witness: two callers hold the same object after two calls and one load
C10_Witness ==
  /\ nFast = 2 /\ nLoad = 1
  /\ lastPtr # Null /\ held[1] = lastPtr /\ held[2] = lastPtr
  /\ rc[lastPtr] = 2

\* ---- claims about item36

\* C3: item36 main terminates under either choice of the default launch
\* policy: with a deferred task wait_for(0s) answers deferred and the polling
\* loop is never entered; with an asynchronous task the loop is left once f
\* has finished.
C3_MainTerminates ==
  /\ [](task["fut"].pol = "deferred" =>
          (pc36 # "loop" /\ (pc36 \in {"ret", "done"} => st36 = "deferred")))
  /\ [](task["fut"].pol = "async" /\ pc36 \in {"ret", "done"} =>
          (task["fut"].run = "done" /\ st36 = "ready"))
  /\ <>(pc36 = "done" /\ ret36 = 0)

\* C3 witness: main has returned after polling an asynchronous task to ready
C3_Witness ==
  pc36 = "done" /\ task["fut"].pol = "async" /\ st36 = "ready" /\ ret36 = 0

\* C5: a task launched through reallyAsync has the async policy, runs on a
\* thread that is not the caller's, is never reported deferred by wait_for,
\* and finishes whether or not the caller ever calls get or wait.
C5_ReallyAsync ==
  /\ [](ccall36 = "reallyAsync" =>
          /\ task["cfut"].pol = "async"
          /\ task["cfut"].thr = Worker("cfut")
          /\ task["cfut"].thr # Owner("cfut")
          /\ cst36 # "deferred")
  /\ (ccall36 = "reallyAsync") ~> (task["cfut"].run = "done")

\* C5 witness: f has run to its end and the caller called neither get nor wait
C5_Witness ==
  /\ ccall36 = "reallyAsync" /\ task["cfut"].run = "done"
  /\ ~asked["cfut"] /\ cpc36 = "has" /\ cst36 = "ready"

\* C6: a deferred f runs only through get or wait, in the thread that calls
\* it; without such a call it never runs, so on the deferred branch of item36
\* main, which calls neither, f is never executed.
C6_DeferredRunsOnDemand ==
  /\ \A t \in Fut : task[t].pol = "deferred" =>
       /\ task[t].run # "idle" => (asked[t] /\ task[t].thr = Owner(t))
       /\ ~asked[t] => (task[t].run = "idle" /\ task[t].thr = "none")
  /\ ~asked["fut"]
  /\ task["fut"].pol = "deferred" => task["fut"].run = "idle"

\* C6 witness: main has returned with its deferred f never run, and a caller
\* has run its deferred f in its own thread by calling get
C6_Witness ==
  /\ pc36 = "done" /\ task["fut"].pol = "deferred" /\ task["fut"].run = "idle"
  /\ task["cfut"].pol = "deferred" /\ task["cfut"].run = "done"
  /\ task["cfut"].thr = "caller" /\ cpc36 = "got"

\* ---- claims about item37

\* C4: once a ThreadRAII has been destroyed its std::thread is not joinable;
\* the destructor joins a joinable thread when the action is join, returning
\* only after the thread function has finished, detaches it when the action
\* is detach, and does nothing to a thread that is not joinable.
C4_UnjoinableOnAllPaths ==
  /\ [](pc37 = "destroyed" => ~joinable)
  /\ [][pc37 = "dtor" /\ pc37' = "destroyed" =>
          /\ joinable /\ action = "join" =>
               (tfun = "finished" /\ UNCHANGED <<tfun, detached>>)
          /\ joinable /\ action = "detach" => (detached' /\ tfun' = tfun)
          /\ ~joinable => UNCHANGED <<joinable, detached, tfun>>]_vars

\* C4 witness: a destructor with action detach has run on a joinable thread
\* whose thread function is still running
C4_Witness ==
  pc37 = "destroyed" /\ action = "detach" /\ detached /\ tfun = "running" /\ ~joinable

\* ---- claims about item39 main

\* C7: reactFlag prints "flag has set to true" only after detectFlag has set
\* flag, whatever the interleaving, the order of notify and wait, and the
\* spurious wakeups; flag is read (by the predicate) and written (by
\* detectFlag) only by a thread that holds m.
C7_ReactsOnlyAfterFlag ==
  /\ (pc4 \in {"print", "unlock", "done"} \/ out39 # <<>>) => flag
  /\ flag => pc3 \in {"unlock", "notify", "done"}
  /\ pc4 = "pred" => m = "th4"
  /\ pc3 = "set" => m = "th3"
  /\ Len(out39) <= 1

\* C7 witness: reactFlag has printed its line after a spurious wakeup
C7_Witness ==
  out39 = <<"flag has set to true">> /\ spurious >= 1 /\ pc4 = "done"

\* C8: under every fair interleaving of th3 and th4 both threads finish, both
\* joins return and main returns 0; no wakeup is lost: th4 is never left
\* blocked in the wait once detectFlag has finished.
C8_MainTerminates ==
  /\ [](pc3 = "done" => pc4 # "waiting")
  /\ [](pc39 \in {"join4", "ret", "done"} => pc3 = "done")
  /\ [](pc39 \in {"ret", "done"} => pc4 = "done")
  /\ <>(pc39 = "done" /\ ret39 = 0)

\* C8 witness: main has returned 0 after th4 was woken from its wait by
\* detectFlag's notification alone
C8_Witness ==
  /\ pc39 = "done" /\ ret39 = 0 /\ pc3 = "done" /\ pc4 = "done"
  /\ spurious = 0 /\ cvWaiters = {}

\* ---- claims about the promise of item39

\* C9: communication through p is one-shot: once p.set_value() has signalled
\* the event it stays signalled, and every later p.set_value(), from
\* detectVoid, detectSuspend or detectMuitiple in any order, throws
\* std::future_error and signals no second event.
C9_PromiseOneShot ==
  /\ [](nSignals <= 1 /\ (pReady <=> nSignals = 1))
  /\ [][pReady => pReady']_vars
  /\ [][nSet' # nSet =>
          IF pReady
            THEN /\ err39' = "promise_already_satisfied"
                 /\ nSignals' = nSignals
                 /\ dpc = "dm_set" => terminated'
                 /\ dpc = "ds_set" => unwinding'
            ELSE pReady' /\ nSignals' = 1 /\ err39' = err39]_vars

\* C9 witness: three calls of p.set_value() were made, the last one from
\* detectMuitiple, and one event was signalled
C9_Witness ==
  /\ nSet = 3 /\ nSignals = 1 /\ err39 = "promise_already_satisfied"
  /\ terminated /\ \E k \in React : tpc[k] # "none"

\* ---- claims about item23

\* C11: logAndProcess forwards the value category of its argument: an lvalue
\* argument reaches process(const Widget&), and process(Widget&&) is reached
\* only by an rvalue argument; item23 main therefore prints "Called lvalue
\* process" and then "Called rvalue process".
C11_ForwardsValueCategory ==
  /\ \A k \in 1..Len(calls23) :
       /\ calls23[k].arg.cat = "lvalue" => calls23[k].line = "Called lvalue process"
       /\ calls23[k].line = "Called rvalue process" => IsRvalue(calls23[k].arg)
  /\ pc23 \notin {"s", "w", "log1"} =>
       (Len(out23) >= 1 /\ out23[1] = "Called lvalue process")
  /\ pc23 \notin {"s", "w", "log1", "log2"} =>
       (Len(out23) >= 2 /\ out23[2] = "Called rvalue process")

\* C11 witness: main has printed both lines, and other callers have passed
\* an lvalue and a non-const rvalue
C11_Witness ==
  /\ pc23 = "done"
  /\ out23 = <<"Called lvalue process", "Called rvalue process", "a", "a">>
  /\ Len(calls23) >= 2
  /\ calls23[1].arg.cat = "lvalue"
  /\ calls23[2].arg = [const |-> FALSE, cat |-> "prvalue"]
  /\ calls23[2].line = "Called rvalue process"

\* ---- claims about detectTask and reactTask of item39

\* "reactTask finished." has been printed
ReactTaskFinished == \E k \in 1..Len(out39) : out39[k] = "reactTask finished."

\* C12: if detectTask notifies the condvar before reactTask waits, reactTask
\* hangs: it never prints "reactTask finished.".
C12_EarlyNotifyHangs == notifiedEarly => ~ReactTaskFinished

\* C13: the wait of reactTask does not account for spurious wakeups: woken
\* spuriously while i is still 0, reactTask passes the wait and goes on to
\* print "reactTask finished.".
C13_SpuriousWakeupPasses ==
  [][(pc2 = "pred" /\ pc2' # pc2 /\ lastWake = "spurious" /\ i39 = 0)
       => pc2' = "print"]_vars

====
